---- MODULE Spec2Model ----
(***************************************************************************)
(* Model of src/server.js: a process-wide token cache (authToken,          *)
(* tokenExpiry), getAuthToken, and the GET /api/track/:awb handler in its  *)
(* two variants: the handler without retry (lines 77-154, variant "A")     *)
(* and the handler with an inline retry on 401 (lines 241-341, variant     *)
(* "B").  Each await of the handlers is a point where another request may  *)
(* run; the code between two awaits is one atomic action (Node.js runs a   *)
(* callback to completion).  The remote service is the environment: the    *)
(* outcome of every remote call is chosen when the call returns.           *)
(***************************************************************************)
EXTENDS Integers, Sequences, FiniteSets, TLC

\* ---------------------------------------------------------------- bounds
\* Date.now() is sampled at k hours + j ms after the start of the process,
\* k in 0..MaxHours, j in 0..MaxSkew
MaxHours == 1

MaxSkew == 1

\* the concurrent requests
Reqs == {"r1", "r2", "r3"}

\* ------------------------------------------------------ program constants
\* 60 * 60 * 1000
TTL == 3600000

\* awb.length < 5
MinAwbLen == 5

\* let authToken = null / let tokenExpiry = null
NoToken == "null"
NoExpiry == 0

\* ------------------------------------------------------------ JS values
\* A JS value is modelled by a string naming it; Undefined is the value of
\* a property that is absent.
Undefined == "undefined"
EmptyStr == ""
EmptyList == "[]"
NA == "N/A"

\* the values `x || d` replaces by d
Falsy == {Undefined, EmptyStr, "null", "0", "false"}

Truthy(v) == v \notin Falsy

\* x || d
OrElse(v, d) == IF Truthy(v) THEN v ELSE d

\* the property names of the payloads
EnrichFields == {"customer_name", "customer_address", "product_name", "product_details"}

TrackOnlyFields == {"order_id", "awb"}

Fields == TrackOnlyFields \cup EnrichFields

\* {} : an object without properties
EmptyObj == [f \in Fields |-> Undefined]

\* a payload `data`: an object (truthy) or null (falsy)
Obj(o) == [isObj |-> TRUE, f |-> o]

NullData == [isObj |-> FALSE, f |-> EmptyObj]

\* a response body {status, data}; present = FALSE is a body that is null
Body(s, d) == [present |-> TRUE, status |-> s, data |-> d]

NoBody == [present |-> FALSE, status |-> FALSE, data |-> NullData]

\* ------------------------------------------------- what the remote sends
Tokens == {"T1", "T2"}

\* POST /users/login: 2xx with a body {status, data: token}, a non-2xx
\* response, or no response at all
LoginBody(s, t) == [present |-> TRUE, status |-> s, data |-> t]

NoLoginBody == [present |-> FALSE, status |-> FALSE, data |-> NoToken]

LoginOutcomes ==
    { [kind |-> "ok", body |-> LoginBody(s, t)] : s \in BOOLEAN, t \in Tokens \cup {NoToken} } \cup
    { [kind |-> k, body |-> NoLoginBody] : k \in {"ok", "http", "transport"} }

PlainLoginOutcomes ==
    { [kind |-> "ok", body |-> LoginBody(TRUE, t)] : t \in Tokens \cup {NoToken} } \cup
    { [kind |-> "transport", body |-> NoLoginBody] }

\* the body of a non-2xx response: null, or an object with a message
MissingAuthMsg == "Missing required request parameters: [Authorization]"

ErrBody(m) == [present |-> TRUE, message |-> m]

NoErrBody == [present |-> FALSE, message |-> Undefined]

ErrBodies == {NoErrBody} \cup { ErrBody(m) : m \in {Undefined, MissingAuthMsg, "upstream says no"} }

HttpStatuses == {400, 401, 403, 404, 500, 503}

\* the outcome of a GET: 2xx with a body, a non-2xx response with status and
\* body, or no response at all
Ok(b) == [kind |-> "ok", status |-> 200, body |-> b, err |-> NoErrBody]

Http(st, e) == [kind |-> "http", status |-> st, body |-> NoBody, err |-> e]

Transport == [kind |-> "transport", status |-> 0, body |-> NoBody, err |-> NoErrBody]

DataBodies(payloads) ==
    {NoBody} \cup
    { Body(s, NullData) : s \in BOOLEAN } \cup
    { Body(s, Obj(p)) : s \in BOOLEAN, p \in payloads }

GetOutcomes(payloads) ==
    { Ok(b) : b \in DataBodies(payloads) } \cup
    { Http(st, e) : st \in HttpStatuses, e \in ErrBodies } \cup
    { Transport }

\* GET /shipments/track/{awb}
TrackExample == [EmptyObj EXCEPT !["order_id"] = "O1", !["awb"] = "AWB12345"]

TrackPayloads ==
    { TrackExample,
      [EmptyObj EXCEPT !["awb"] = "AWB12345"],
      [EmptyObj EXCEPT !["order_id"] = "O1", !["customer_name"] = "Upstream",
                       !["product_details"] = "[p0]"] }

TrackOutcomes == GetOutcomes(TrackPayloads)

PlainTrackOutcomes ==
    { Ok(Body(TRUE, Obj(TrackExample))), Ok(Body(TRUE, NullData)), Ok(NoBody),
      Http(400, ErrBody(MissingAuthMsg)), Http(401, ErrBody("upstream says no")),
      Http(500, NoErrBody), Transport }

\* GET /orders/{order_id}
OrderExample == [EmptyObj EXCEPT !["customer_name"] = "Jane"]

OrderPayloads ==
    { EmptyObj,
      OrderExample,
      [EmptyObj EXCEPT !["customer_name"] = EmptyStr, !["customer_address"] = "Road 1"],
      [EmptyObj EXCEPT !["product_name"] = "Lamp", !["product_details"] = EmptyList],
      [EmptyObj EXCEPT !["customer_name"] = "Jane", !["customer_address"] = "Road 1",
                       !["product_name"] = "Lamp", !["product_details"] = "[p1]"] }

OrderOutcomes == GetOutcomes(OrderPayloads)

PlainOrderOutcomes ==
    { Ok(Body(TRUE, Obj(OrderExample))), Ok(NoBody),
      Http(401, ErrBody("upstream says no")), Transport }

\* the fewest outcomes that still take every branch of the two handlers
LeanLoginOutcomes == { [kind |-> "ok", body |-> LoginBody(TRUE, t)] : t \in Tokens }

LeanTrackOutcomes ==
    { Ok(Body(TRUE, Obj(TrackExample))), Http(401, ErrBody("upstream says no")),
      Http(403, ErrBody("upstream says no")), Transport }

LeanOrderOutcomes == { Ok(Body(TRUE, Obj(OrderExample))) }

\* req.params.awb
Awb(v) == [present |-> TRUE, value |-> v]

NoAwb == [present |-> FALSE, value |-> ""]

AwbInputs == { NoAwb, Awb(""), Awb("AB12"), Awb("AWB12"), Awb("AWB12345") }

PlainAwbInputs == { NoAwb, Awb("AB12"), Awb("AWB12") }

LeanAwbInputs == { Awb("AWB12") }

\* The inputs by environment: "varied" draws every shape of input above,
\* "plain" one input of each kind, "lean" the fewest.
AwbsOf(e) == IF e = "varied" THEN AwbInputs ELSE IF e = "plain" THEN PlainAwbInputs ELSE LeanAwbInputs

LoginsOf(e) == IF e = "varied" THEN LoginOutcomes ELSE IF e = "plain" THEN PlainLoginOutcomes ELSE LeanLoginOutcomes

TracksOf(e) == IF e = "varied" THEN TrackOutcomes ELSE IF e = "plain" THEN PlainTrackOutcomes ELSE LeanTrackOutcomes

OrdersOf(e) == IF e = "varied" THEN OrderOutcomes ELSE IF e = "plain" THEN PlainOrderOutcomes ELSE LeanOrderOutcomes

\* ---------------------------------------------------------------- state
VARIABLES
    env,          \* which inputs the clients and the remote service draw from
    variant,      \* which of the two programs of server.js runs: "A" (lines 1-170) or "B" (lines 172-352)
    authToken,    \* let authToken
    tokenExpiry,  \* let tokenExpiry
    now,          \* Date.now(), in ms since the process started
    storedAt,     \* history: the instant authToken was assigned its token
    pc,           \* per request: the await the handler is suspended at
    awb,          \* per request: req.params.awb
    token,        \* per request: const token / const newToken
    trackData,    \* per request: trackResponse.data.data
    orderData,    \* per request: let orderData
    resp,         \* per request: what res.status(..).json(..) has sent
    calls,        \* per request: the remote calls issued so far
    hist,         \* per request: history of what the remote answered
    ledger        \* history: per token, whether a login has returned it and whether a 401 was handled for it

vars == <<env, variant, authToken, tokenExpiry, now, storedAt,
          pc, awb, token, trackData, orderData, resp, calls, hist, ledger>>

cacheVars == <<authToken, tokenExpiry, storedAt>>

NoResp == [sent |-> FALSE, status |-> 0, success |-> FALSE, data |-> NullData, message |-> Undefined]

\* no login has returned a token yet
NoLedger == [t \in Tokens |-> "new"]

\* the ledger once a login has returned a token for the second time: the
\* history of the tokens is no longer followed
VoidLedger == [t \in Tokens |-> "void"]

NoCalls == [login |-> 0, relogin |-> 0, track |-> 0, order |-> 0]

NoHist == [login |-> "none", track |-> "none", trackStatus |-> 0, trackMsg |-> Undefined,
           order |-> "none", orderStatus |-> 0, orderBody |-> NoBody,
           relogin |-> "none", retry |-> "none"]

\* how the history names an outcome, by its shape alone
Shape(o) ==
    IF o.kind = "ok"
    THEN IF ~o.body.present THEN "nobody"
         ELSE IF o.body.status /\ o.body.data.isObj THEN "wf" ELSE "malformed"
    ELSE o.kind

LoginShape(o) ==
    IF o.kind = "ok"
    THEN IF o.body.present /\ o.body.status /\ o.body.data \in Tokens THEN "wf" ELSE "malformed"
    ELSE o.kind

\* what is the same at the start of every configuration
Start ==
    /\ variant \in {"A", "B"}
    /\ authToken = NoToken
    /\ tokenExpiry = NoExpiry
    /\ now = 0
    /\ storedAt = 0
    /\ awb = [r \in Reqs |-> NoAwb]
    /\ token = [r \in Reqs |-> NoToken]
    /\ trackData = [r \in Reqs |-> NullData]
    /\ orderData = [r \in Reqs |-> EmptyObj]
    /\ resp = [r \in Reqs |-> NoResp]
    /\ calls = [r \in Reqs |-> NoCalls]
    /\ hist = [r \in Reqs |-> NoHist]
    /\ ledger = NoLedger

\* two clients, plain inputs
Init ==
    /\ env = "plain"
    /\ pc = [r \in Reqs |-> IF r \in {"r1", "r2"} THEN "idle" ELSE "off"]
    /\ Start

\* one client, varied inputs
InitOne ==
    /\ env = "varied"
    /\ pc = [r \in Reqs |-> IF r = "r1" THEN "idle" ELSE "off"]
    /\ Start

\* three clients, lean inputs
InitThree ==
    /\ env = "lean"
    /\ pc = [r \in Reqs |-> "idle"]
    /\ Start

\* ------------------------------------------------------- pieces of code
\* a faulty CacheHit: a token is still taken as valid at the instant it expires
CacheHitAtExpiry(tok, exp, t) == tok # NoToken /\ exp # NoExpiry /\ t =< exp

\* if (authToken && tokenExpiry && Date.now() < tokenExpiry)
CacheHit(tok, exp, t) == tok # NoToken /\ exp # NoExpiry /\ t < exp

\* a faulty AwbInvalid: a 5-character AWB is rejected
AwbInvalidAtFive(a) == ~a.present \/ a.value = "" \/ Len(a.value) =< MinAwbLen

\* if (!awb || awb.length < 5)
AwbInvalid(a) == ~a.present \/ a.value = "" \/ Len(a.value) < MinAwbLen

\* a faulty LoginOk: the status flag of the login response is not looked at
LoginOkNoStatus(o) == o.kind = "ok" /\ o.body.present /\ o.body.data # NoToken

\* the login response passes `!loginResponse.data?.status || !loginResponse.data?.data`
\* (variant B: `!loginResponse.data || ...`); a non-2xx or a transport failure throws
LoginOk(o) == o.kind = "ok" /\ o.body.present /\ o.body.status /\ o.body.data # NoToken

\* a faulty NewExpiry: the TTL alone, not counted from the instant of the login
NewExpiryNoClock(t) == TTL

\* Date.now() + 60 * 60 * 1000
NewExpiry(t) == t + TTL

\* a faulty DataOk: the status flag of the response is not looked at
DataOkAnyStatus(b) == b.present /\ b.data.isObj

\* trackResponse.data?.status && trackResponse.data?.data      (variant A)
\* trackResponse.data.status && trackResponse.data.data        (variant B)
DataOk(b) == b.present /\ b.status /\ b.data.isObj

\* variant B reads a property of a body that is null: TypeError
ReadsNull(v, b) == v = "B" /\ ~b.present

\* a faulty FullData: the order's values are taken only when it names the customer
FullDataAllOrNothing(t, o) ==
    [f \in Fields |->
        IF f \in {"customer_name", "customer_address", "product_name"}
        THEN IF Truthy(o["customer_name"]) THEN OrElse(o[f], NA) ELSE NA
        ELSE IF f = "product_details"
        THEN IF Truthy(o["customer_name"]) THEN OrElse(o[f], EmptyList) ELSE EmptyList
        ELSE t[f]]

\* const fullData = { ...trackResponse.data.data, customer_name: ..., ... }
FullData(t, o) ==
    [f \in Fields |->
        IF f = "customer_name" THEN OrElse(o["customer_name"], NA)
        ELSE IF f = "customer_address" THEN OrElse(o["customer_address"], NA)
        ELSE IF f = "product_name" THEN OrElse(o["product_name"], NA)
        ELSE IF f = "product_details" THEN OrElse(o["product_details"], EmptyList)
        ELSE t[f]]

\* res.status(st).json({success, data | message})
Sent(st, ok, d, m) == [sent |-> TRUE, status |-> st, success |-> ok, data |-> d, message |-> m]

\* data?.message || fallback
MsgOr(e, d) == IF e.present THEN OrElse(e.message, d) ELSE d

\* status || 500
StatusOr500(st) == IF st = 0 THEN 500 ELSE st

\* data.message?.includes('Missing required request parameters: [Authorization]')
SaysMissingAuth(e) == e.present /\ e.message = MissingAuthMsg

FailedAuthMsg == "Failed to authenticate with NimbusPost"

\* a faulty InternalMsg: the message of the underlying error is dropped
InternalMsgBare(m) == "Internal server error"

InternalMsg(m) == "Internal server error: " \o m

NoDataMsg == "No tracking data found for this AWB number"

\* ------------------------------------------------------------- updates
\* the handler sends s and returns
Respond(r, s) ==
    /\ resp' = [resp EXCEPT ![r] = s]
    /\ pc' = [pc EXCEPT ![r] = "done"]
    /\ token' = [token EXCEPT ![r] = NoToken]

\* the handler suspends at await l, holding token t
Goto(r, l, t) ==
    /\ pc' = [pc EXCEPT ![r] = l]
    /\ token' = [token EXCEPT ![r] = t]
    /\ resp' = resp

Issue(r, c) == calls' = [calls EXCEPT ![r][c] = @ + 1]

\* a faulty Store: a token already cached is not overwritten
StoreFirstWins(t) ==
    IF authToken # NoToken
    THEN UNCHANGED <<authToken, tokenExpiry, storedAt>>
    ELSE /\ authToken' = t
         /\ tokenExpiry' = NewExpiry(now)
         /\ storedAt' = now

\* authToken = loginResponse.data.data; tokenExpiry = Date.now() + 60 * 60 * 1000
Store(t) ==
    /\ authToken' = t
    /\ tokenExpiry' = NewExpiry(now)
    /\ storedAt' = now

\* history: a login returns token t
Log(t) == ledger' = IF ledger[t] = "new" THEN [ledger EXCEPT ![t] = "issued"] ELSE VoidLedger

\* history: the handler has caught the 401 of a track call made with token t
LogRejected(t) == ledger' = IF ledger = VoidLedger THEN ledger ELSE [ledger EXCEPT ![t] = "rejected"]

\* a faulty Clear: the expiry is reset, the token stays
ClearExpiryOnly ==
    /\ authToken' = authToken
    /\ tokenExpiry' = NoExpiry
    /\ storedAt' = storedAt

\* a faulty Clear: the token stays
ClearNothing == UNCHANGED <<authToken, tokenExpiry, storedAt>>

\* authToken = null
Clear ==
    /\ authToken' = NoToken
    /\ tokenExpiry' = tokenExpiry
    /\ storedAt' = storedAt

\* -------------------------------------------------------------- actions
\* The request arrives: validation, then getAuthToken up to its first await.
\* On a cache hit the handler goes on, in the same turn, to issue the track
\* call; on a miss the login call is issued.
Receive(r, a) ==
    /\ pc[r] = "idle"
    /\ awb' = [awb EXCEPT ![r] = a]
    /\ UNCHANGED <<env, variant, cacheVars, now, trackData, orderData, ledger>>
    /\ IF AwbInvalid(a)
       THEN /\ Respond(r, Sent(400, FALSE, NullData, "Invalid AWB number (too short)"))
            /\ UNCHANGED <<calls, hist>>
       ELSE IF CacheHit(authToken, tokenExpiry, now)
       THEN /\ hist' = [hist EXCEPT ![r].login = "cached"]
            /\ Issue(r, "track")
            /\ Goto(r, "await_track", authToken)
       ELSE /\ Issue(r, "login")
            /\ Goto(r, "await_login", token[r])
            /\ UNCHANGED hist

\* The login call of step 1 returns: getAuthToken stores and returns the
\* token and the handler issues the track call, or getAuthToken throws and
\* the handler's catch, finding no error.response, answers 500.
LoginReturn(r, o) ==
    /\ pc[r] = "await_login"
    /\ hist' = [hist EXCEPT ![r].login = LoginShape(o)]
    /\ UNCHANGED <<env, variant, now, awb, trackData, orderData>>
    /\ IF LoginOk(o)
       THEN /\ Store(o.body.data)
            /\ Log(o.body.data)
            /\ Issue(r, "track")
            /\ Goto(r, "await_track", o.body.data)
       ELSE /\ Respond(r, Sent(500, FALSE, NullData, InternalMsg(FailedAuthMsg)))
            /\ UNCHANGED <<cacheVars, calls, ledger>>

\* The track call returns 2xx.
TrackOk(r, o) ==
    /\ pc[r] = "await_track"
    /\ o.kind = "ok"
    /\ hist' = [hist EXCEPT ![r].track = Shape(o), ![r].trackStatus = o.status,
                            ![r].trackMsg = o.err.message]
    /\ UNCHANGED <<env, variant, cacheVars, now, awb, orderData, ledger>>
    /\ IF ReadsNull(variant, o.body)
       THEN /\ Respond(r, Sent(500, FALSE, NullData, InternalMsg("TypeError")))
            /\ UNCHANGED <<trackData, calls>>
       ELSE IF DataOk(o.body)
       THEN /\ trackData' = [trackData EXCEPT ![r] = o.body.data]
            /\ Issue(r, "order")
            /\ Goto(r, "await_order", token[r])
       ELSE /\ Respond(r, Sent(404, FALSE, NullData, NoDataMsg))
            /\ UNCHANGED <<trackData, calls>>

\* The track call fails without a response (error.response is undefined).
TrackTransport(r, o) ==
    /\ pc[r] = "await_track"
    /\ o.kind = "transport"
    /\ hist' = [hist EXCEPT ![r].track = Shape(o), ![r].trackStatus = o.status,
                            ![r].trackMsg = o.err.message]
    /\ Respond(r, Sent(500, FALSE, NullData, InternalMsg("Network Error")))
    /\ UNCHANGED <<env, variant, cacheVars, now, awb, trackData, orderData, calls, ledger>>

\* Variant A: the track call returns a non-2xx response.
TrackErrA(r, o) ==
    /\ variant = "A"
    /\ pc[r] = "await_track"
    /\ o.kind = "http"
    /\ hist' = [hist EXCEPT ![r].track = Shape(o), ![r].trackStatus = o.status,
                            ![r].trackMsg = o.err.message]
    /\ UNCHANGED <<env, variant, now, awb, trackData, orderData, calls>>
    /\ IF o.status = 401
       THEN /\ Clear
            /\ LogRejected(token[r])
            /\ Respond(r, Sent(401, FALSE, NullData, "Authentication failed. Token reset."))
       ELSE /\ Respond(r, Sent(o.status, FALSE, NullData,
                               MsgOr(o.err, "Failed to fetch tracking information")))
            /\ UNCHANGED <<cacheVars, ledger>>

\* a faulty ErrRespB: 404 falls through to a generic 500
ErrRespB404As500(o) ==
    IF o.status = 400
    THEN Sent(400, FALSE, NullData, MsgOr(o.err, "Bad request: Invalid AWB or parameters"))
    ELSE IF o.status = 403
    THEN Sent(403, FALSE, NullData, "Access forbidden. Invalid token or AWB number.")
    ELSE IF o.status = 404
    THEN Sent(500, FALSE, NullData, "AWB number not found.")
    ELSE Sent(StatusOr500(o.status), FALSE, NullData,
              MsgOr(o.err, "Failed to fetch tracking information"))

\* Variant B: the branches of the catch block that read data.message; a
\* body that is null makes that read throw inside the catch block, and the
\* handler ends without a response.
ErrRespB(o) ==
    IF o.status = 400 /\ SaysMissingAuth(o.err)
    THEN Sent(400, FALSE, NullData, "Authorization header missing or invalid. Please check credentials.")
    ELSE IF o.status = 400
    THEN Sent(400, FALSE, NullData, MsgOr(o.err, "Bad request: Invalid AWB or parameters"))
    ELSE IF o.status = 403
    THEN Sent(403, FALSE, NullData, "Access forbidden. Invalid token or AWB number.")
    ELSE IF o.status = 404
    THEN Sent(404, FALSE, NullData, "AWB number not found.")
    ELSE Sent(StatusOr500(o.status), FALSE, NullData,
              MsgOr(o.err, "Failed to fetch tracking information"))

ThrowsInCatchB(o) == o.status \notin {401, 403, 404} /\ ~o.err.present

\* Variant B: the track call returns a non-2xx response other than 401.
TrackErrB(r, o) ==
    /\ variant = "B"
    /\ pc[r] = "await_track"
    /\ o.kind = "http"
    /\ o.status # 401
    /\ hist' = [hist EXCEPT ![r].track = Shape(o), ![r].trackStatus = o.status,
                            ![r].trackMsg = o.err.message]
    /\ UNCHANGED <<env, variant, now, awb, trackData, orderData, calls, ledger>>
    /\ IF ThrowsInCatchB(o)
       THEN /\ Goto(r, "threw", NoToken)
            /\ UNCHANGED cacheVars
       ELSE /\ Respond(r, ErrRespB(o))
            /\ IF o.status = 400 /\ SaysMissingAuth(o.err)
               THEN Clear
               ELSE UNCHANGED cacheVars

\* Variant B: the track call returns 401: the token is cleared and
\* getAuthToken runs up to its first await.
Track401B(r, o) ==
    /\ variant = "B"
    /\ pc[r] = "await_track"
    /\ o.kind = "http"
    /\ o.status = 401
    /\ hist' = [hist EXCEPT ![r].track = Shape(o), ![r].trackStatus = o.status,
                            ![r].trackMsg = o.err.message]
    /\ Clear
    /\ LogRejected(token[r])
    /\ UNCHANGED <<env, variant, now, awb, trackData, orderData>>
    /\ IF CacheHit(authToken', tokenExpiry', now)
       THEN /\ Issue(r, "track")
            /\ Goto(r, "await_retry", authToken')
       ELSE /\ Issue(r, "relogin")
            /\ Goto(r, "await_relogin", token[r])

\* Variant B: the login call of the retry returns.
ReloginReturn(r, o) ==
    /\ pc[r] = "await_relogin"
    /\ hist' = [hist EXCEPT ![r].relogin = LoginShape(o)]
    /\ UNCHANGED <<env, variant, now, awb, trackData, orderData>>
    /\ IF LoginOk(o)
       THEN /\ Store(o.body.data)
            /\ Log(o.body.data)
            /\ Issue(r, "track")
            /\ Goto(r, "await_retry", o.body.data)
       ELSE /\ Respond(r, Sent(401, FALSE, NullData,
                               "Authentication failed. Invalid token or credentials."))
            /\ UNCHANGED <<cacheVars, calls, ledger>>

\* a faulty RetryResp: any 2xx body counts as a successful retry
RetryRespAny2xx(o) ==
    IF o.kind = "ok" /\ o.body.present
    THEN Sent(200, TRUE, o.body.data, Undefined)
    ELSE Sent(401, FALSE, NullData, "Authentication failed. Invalid token or credentials.")

\* Variant B: what the retry answers: the retried call's data as it is, 404
\* when it carries none, 401 when the call failed or its body is null.
RetryResp(o) ==
    IF o.kind = "ok" /\ o.body.present
    THEN IF DataOk(o.body)
         THEN Sent(200, TRUE, o.body.data, Undefined)
         ELSE Sent(404, FALSE, NullData, NoDataMsg)
    ELSE Sent(401, FALSE, NullData, "Authentication failed. Invalid token or credentials.")

\* Variant B: the retried track call returns.
RetryReturn(r, o) ==
    /\ pc[r] = "await_retry"
    /\ hist' = [hist EXCEPT ![r].retry = Shape(o)]
    /\ UNCHANGED <<env, variant, cacheVars, now, awb, trackData, orderData, calls>>
    /\ IF o.kind = "http" /\ o.status = 401 THEN LogRejected(token[r]) ELSE UNCHANGED ledger
    /\ Respond(r, RetryResp(o))

\* a faulty OrderDataOf: the status flag of the order response is not looked at
OrderDataAnyStatus(o) == IF o.kind = "ok" /\ o.body.present /\ o.body.data.isObj THEN o.body.data.f ELSE EmptyObj

\* let orderData = {}; if (orderResponse.data?.status && orderResponse.data?.data)
\* orderData = orderResponse.data.data; a failed call and (variant B) a body
\* that is null end in the inner catch
OrderDataOf(o) == IF o.kind = "ok" /\ DataOk(o.body) THEN o.body.data.f ELSE EmptyObj

\* The order call returns, whatever its outcome: the inner try/catch leaves
\* orderData = {} unless the response is well-formed.
OrderReturn(r, o) ==
    /\ pc[r] = "await_order"
    /\ hist' = [hist EXCEPT ![r].order = Shape(o), ![r].orderStatus = o.status,
                            ![r].orderBody = o.body]
    /\ orderData' = [orderData EXCEPT ![r] = OrderDataOf(o)]
    /\ Respond(r, Sent(200, TRUE, Obj(FullData(trackData[r].f, orderData'[r])), Undefined))
    /\ UNCHANGED <<env, variant, cacheVars, now, awb, trackData, calls, ledger>>

\* Date.now() moves on; with three clients it is sampled at whole hours only
TimePoints ==
    IF env = "lean"
    THEN { k * TTL : k \in 0..MaxHours }
    ELSE { k * TTL + j : k \in 0..MaxHours, j \in 0..MaxSkew }

Tick(t) ==
    /\ t > now
    /\ now' = t
    /\ UNCHANGED <<env, variant, cacheVars, pc, awb, token, trackData, orderData, resp, calls, hist, ledger>>

Next ==
    \/ \E r \in Reqs, a \in AwbsOf(env) : Receive(r, a)
    \/ \E r \in Reqs, o \in LoginsOf(env) : LoginReturn(r, o)
    \/ \E r \in Reqs, o \in TracksOf(env) : TrackOk(r, o)
    \/ \E r \in Reqs, o \in TracksOf(env) : TrackTransport(r, o)
    \/ \E r \in Reqs, o \in TracksOf(env) : TrackErrA(r, o)
    \/ \E r \in Reqs, o \in TracksOf(env) : TrackErrB(r, o)
    \/ \E r \in Reqs, o \in TracksOf(env) : Track401B(r, o)
    \/ \E r \in Reqs, o \in LoginsOf(env) : ReloginReturn(r, o)
    \/ \E r \in Reqs, o \in TracksOf(env) : RetryReturn(r, o)
    \/ \E r \in Reqs, o \in OrdersOf(env) : OrderReturn(r, o)
    \/ \E t \in TimePoints : Tick(t)

Spec == Init /\ [][Next]_vars

SpecOne == InitOne /\ [][Next]_vars

SpecThree == InitThree /\ [][Next]_vars

TypeOK ==
    /\ env \in {"plain", "varied", "lean"}
    /\ variant \in {"A", "B"}
    /\ authToken \in Tokens \cup {NoToken}
    /\ tokenExpiry \in Nat
    /\ ledger \in [Tokens -> {"new", "issued", "rejected", "void"}]
    /\ \A r \in Reqs : pc[r] \in {"idle", "await_login", "await_track", "await_order",
                                  "await_relogin", "await_retry", "done", "threw", "off"}

\* ================================================================ claims
\* steps of request r
Enters(r) == pc[r] = "idle" /\ pc'[r] \in {"await_login", "await_track"}

Reenters(r) == pc[r] = "await_track" /\ pc'[r] \in {"await_relogin", "await_retry"}

LoginsIssued(r) == (calls'[r].login + calls'[r].relogin) - (calls[r].login + calls[r].relogin)

\* C1: getAuthToken issues a login exactly when no token is cached or
\* now >= tokenExpiry, a login that is the one remote call it makes; with a
\* token cached and now < tokenExpiry it returns the cached token and issues
\* no login.  So a call made less than TTL after the cached token was stored
\* adds no login to the one that stored it, and a call made at or after that
\* instant plus TTL issues a new login.
C1_LoginIffMiss ==
    [][\A r \in Reqs :
        /\ Enters(r) =>
            /\ LoginsIssued(r) \in {0, 1}
            /\ LoginsIssued(r) = 1 <=> (authToken = NoToken \/ now >= tokenExpiry)
            /\ (authToken # NoToken /\ now < tokenExpiry) => token'[r] = authToken
            /\ (authToken # NoToken /\ now < storedAt + TTL) => LoginsIssued(r) = 0
            /\ now >= storedAt + TTL => LoginsIssued(r) = 1
            /\ LoginsIssued(r) = 1 => calls'[r].track = calls[r].track
        /\ Reenters(r) =>
            LoginsIssued(r) = 1 <=> (authToken' = NoToken \/ now >= tokenExpiry')
      ]_vars

\* a second call inside the TTL window was served from the cache: one login in total
C1_Witness ==
    \E r, q \in Reqs :
        /\ r # q
        /\ calls[q].login = 1 /\ hist[q].login = "wf"
        /\ calls[r].login = 0 /\ hist[r].login = "cached"
        /\ now > storedAt
        /\ token[r] = authToken

\* the AWB of a request, as the claim reads it
TooShort(a) == ~a.present \/ Len(a.value) < 5

\* C2: a request whose AWB is absent or shorter than 5 characters is answered
\* 400 having issued no remote call and leaving the cache as it was; an AWB
\* of 5 or more characters passes validation (the handler goes on to
\* getAuthToken).
C2_ShortAwbRejected ==
    [][\A r \in Reqs :
        (pc[r] = "idle" /\ pc'[r] # "idle") =>
            IF TooShort(awb'[r])
            THEN /\ resp'[r].sent /\ resp'[r].status = 400 /\ ~resp'[r].success
                 /\ calls'[r] = NoCalls
                 /\ authToken' = authToken /\ tokenExpiry' = tokenExpiry
            ELSE /\ ~resp'[r].sent
                 /\ calls'[r].login + calls'[r].track = 1
      ]_vars

\* a short AWB was rejected while the cache held a token
C2_Witness ==
    \E r \in Reqs :
        /\ awb[r] = Awb("AB12") /\ pc[r] = "done" /\ resp[r].status = 400
        /\ calls[r] = NoCalls
        /\ authToken # NoToken

\* C3: whenever the cache holds a token it holds an expiry, and the expiry is
\* the instant that token was stored plus the TTL of one hour.
C3_ExpiryOfSameLogin ==
    authToken # NoToken =>
        /\ tokenExpiry # NoExpiry
        /\ tokenExpiry = storedAt + 3600000

\* a token stored after an invalidation, with a login of another request in flight
C3_Witness ==
    /\ authToken # NoToken
    /\ storedAt > 0
    /\ \E r, q \in Reqs :
        /\ hist[r].trackStatus = 401
        /\ pc[q] \in {"await_login", "await_relogin"}

Defaulted(d) ==
    /\ d.f["customer_name"] = "N/A"
    /\ d.f["customer_address"] = "N/A"
    /\ d.f["product_name"] = "N/A"
    /\ d.f["product_details"] = "[]"

\* C5: once a track response with a truthy status and data has been received,
\* the request goes on to a 200 success response and to no other response;
\* when the order call failed with an HTTP status, failed without a response
\* or returned a malformed payload, the four enrichment fields hold their
\* defaults "N/A", "N/A", "N/A" and [].
C5_EnrichmentNeverFails ==
    \A r \in Reqs :
        (hist[r].track = "wf" \/ hist[r].retry = "wf") =>
            /\ pc[r] \in {"await_order", "done"}
            /\ pc[r] = "done" =>
                /\ resp[r].sent /\ resp[r].status = 200 /\ resp[r].success
                /\ hist[r].order \in {"http", "transport", "malformed", "nobody"} =>
                        Defaulted(resp[r].data)

\* a request answered 200 with defaults after its order call failed with an HTTP status
C5_Witness ==
    \E r \in Reqs :
        /\ pc[r] = "done" /\ hist[r].track = "wf" /\ hist[r].order = "http"
        /\ resp[r].status = 200 /\ Defaulted(resp[r].data)
        /\ trackData[r].f["customer_name"] = "Upstream"

\* C6: in the handler with the inline retry, a 401 of the first track call is
\* followed by exactly one login of the retry, issued whatever the cache held,
\* and by at most one more track call, made with the token of that login; the
\* answer is 200 exactly when the retried call returned a well-formed
\* response, and it is 401 only if the login of the retry failed or the
\* retried call did not return a well-formed response.  No request issues
\* more than two track calls.
C6_OneReloginOneRetry ==
    \A r \in Reqs :
        /\ calls[r].track =< 2
        /\ (variant = "B" /\ hist[r].trackStatus = 401) =>
            /\ calls[r].relogin = 1
            /\ pc[r] \in {"await_relogin", "await_retry", "done"}
            /\ calls[r].track = 2 <=> hist[r].relogin = "wf"
            /\ pc[r] = "await_retry" => (hist[r].relogin = "wf" /\ token[r] \in Tokens)
            /\ pc[r] = "done" =>
                /\ resp[r].status \in {200, 401, 404}
                /\ resp[r].status = 200 <=> hist[r].retry = "wf"
                /\ resp[r].status = 401 => (hist[r].relogin # "wf" \/ hist[r].retry # "wf")
                /\ hist[r].relogin # "wf" => resp[r].status = 401
        /\ (variant = "A" \/ hist[r].trackStatus # 401) => (calls[r].relogin = 0 /\ calls[r].track =< 1)

\* a request that held a cached token, met a 401 and succeeded on its retry
C6_Witness ==
    \E r \in Reqs :
        /\ variant = "B" /\ hist[r].login = "cached" /\ hist[r].trackStatus = 401
        /\ calls[r].relogin = 1 /\ calls[r].track = 2
        /\ pc[r] = "done" /\ resp[r].status = 200

\* C7: every 200 response carries the four enrichment fields.
C7_AllEnrichmentFields ==
    \A r \in Reqs :
        (resp[r].sent /\ resp[r].status = 200) =>
            /\ resp[r].data.isObj
            /\ \A f \in EnrichFields : resp[r].data.f[f] # Undefined

\* what C8 expects of the response data, from the track payload t and the
\* body b of the order response
C8_Default(f) == IF f = "product_details" THEN "[]" ELSE "N/A"

C8_Expected(t, b) ==
    [f \in Fields |->
        IF f \in {"customer_name", "customer_address", "product_name", "product_details"}
        THEN IF /\ b.present /\ b.status /\ b.data.isObj
                /\ b.data.f[f] \notin {"undefined", "", "null", "0", "false"}
             THEN b.data.f[f]
             ELSE C8_Default(f)
        ELSE t[f]]

C8_ExampleData ==
    [f \in Fields |->
        CASE f = "order_id" -> "O1"
          [] f = "awb" -> "AWB12345"
          [] f = "customer_name" -> "Jane"
          [] f = "customer_address" -> "N/A"
          [] f = "product_name" -> "N/A"
          [] f = "product_details" -> "[]"]

\* C8: on the path through the order call the response is 200 and its data
\* is the track payload with each of the four enrichment fields set, each on
\* its own, to the order's value when the order response is well-formed and
\* the value is truthy and to its default otherwise; the other track fields
\* pass unchanged.  Track data {order_id: O1, awb: AWB12345} and order data
\* {customer_name: Jane} give {order_id: O1, awb: AWB12345, customer_name:
\* Jane, customer_address: N/A, product_name: N/A, product_details: []}.
C8_ShallowMerge ==
    \A r \in Reqs :
        (pc[r] = "done" /\ hist[r].order # "none") =>
            /\ resp[r].status = 200 /\ resp[r].success
            /\ resp[r].data = [isObj |-> TRUE, f |-> C8_Expected(trackData[r].f, hist[r].orderBody)]
            /\ (/\ trackData[r].f = TrackExample
                /\ hist[r].orderBody = Body(TRUE, Obj(OrderExample))) =>
                    resp[r].data.f = C8_ExampleData

\* the example of the claim, and an order that names an address but no customer
C8_Witness ==
    \E r \in Reqs :
        /\ pc[r] = "done"
        /\ trackData[r].f = TrackExample
        /\ hist[r].orderBody = Body(TRUE, Obj(OrderExample))
        /\ resp[r].data.f = C8_ExampleData

\* C9: a track response whose status flag, data payload or order_id is absent
\* is answered 404 and no order call is issued for it.
C9_NotFoundWithoutOrderId ==
    \A r \in Reqs :
        (\/ hist[r].track \in {"malformed", "nobody"}
         \/ (hist[r].track = "wf" /\ trackData[r].f["order_id"] = Undefined)) =>
            /\ calls[r].order = 0
            /\ pc[r] = "done"
            /\ resp[r].status = 404

TrackFails(r, st) ==
    /\ pc[r] = "await_track"
    /\ hist'[r].track = "http"
    /\ hist'[r].trackStatus = st

\* C11: when the track call is answered 400 with the message that the
\* Authorization parameter is missing, the handler clears the cached token
\* and answers 400; when the 400 carries any other message the cache is left
\* as it was.
C11_MissingAuthInvalidates ==
    [][\A r \in Reqs :
        TrackFails(r, 400) =>
            IF hist'[r].trackMsg = MissingAuthMsg
            THEN /\ authToken' = NoToken
                 /\ resp'[r].sent /\ resp'[r].status = 400
            ELSE authToken' = authToken /\ tokenExpiry' = tokenExpiry
      ]_vars

\* the handler of request r runs `authToken = null` in this step
Invalidates(r) ==
    \/ TrackFails(r, 401)
    \/ variant = "B" /\ TrackFails(r, 400) /\ hist'[r].trackMsg = MissingAuthMsg

\* C12 as stated: immediately after the handler invalidates the cache, the
\* cache holds neither a token nor an expiry, as in its initial state.
C12_InvalidateClearsBoth ==
    [][\A r \in Reqs :
        Invalidates(r) => authToken' = NoToken /\ tokenExpiry' = NoExpiry
      ]_vars

\* C12: immediately after the handler invalidates the cache, the cache holds
\* no token, and the expiry is still the one of the last login stored;
\* getAuthToken takes that state for a miss.
C12_InvalidateClearsToken ==
    [][\A r \in Reqs :
        Invalidates(r) =>
            /\ authToken' = NoToken
            /\ tokenExpiry' = tokenExpiry /\ tokenExpiry' # NoExpiry
            /\ ~CacheHit(authToken', tokenExpiry', now')
      ]_vars

\* the retry handler has invalidated on a 400: no token, the expiry still there
C12_Witness ==
    \E r \in Reqs :
        /\ variant = "B" /\ pc[r] = "done"
        /\ hist[r].trackStatus = 400 /\ hist[r].trackMsg = MissingAuthMsg
        /\ authToken = NoToken /\ tokenExpiry = storedAt + TTL
        /\ now < tokenExpiry

\* the outcomes of a login call that are failures
FailedLogins == {"malformed", "http", "transport"}

\* a login call of request r returns a failure in this step
LoginFails(r) ==
    \/ pc[r] = "await_login" /\ hist'[r].login \in FailedLogins
    \/ pc[r] = "await_relogin" /\ hist'[r].relogin \in FailedLogins

\* C13: a login that fails (no response, a non-2xx response, or a 2xx body
\* without a truthy status or without a token) stores nothing: the cached
\* token and expiry stay as they were, the handler gets no token and issues
\* no further call, and it answers with the authentication failure.
C13_FailedLoginStoresNothing ==
    [][\A r \in Reqs :
        LoginFails(r) =>
            /\ authToken' = authToken /\ tokenExpiry' = tokenExpiry
            /\ token'[r] = NoToken
            /\ calls'[r] = calls[r]
            /\ resp'[r].sent /\ ~resp'[r].success
            /\ resp'[r].message \in {InternalMsg(FailedAuthMsg),
                                     "Authentication failed. Invalid token or credentials."}
      ]_vars

\* a first login failed on a 2xx body and the cache is still empty; or the
\* login of a retry failed and the cache still has no token
C13_Witness ==
    \E r \in Reqs :
        /\ pc[r] = "done" /\ authToken = NoToken
        /\ \/ hist[r].login = "malformed" /\ tokenExpiry = NoExpiry /\ calls[r].track = 0
           \/ hist[r].relogin = "http" /\ tokenExpiry = storedAt + TTL /\ calls[r].track = 1

\* C14: when the login of step 1 fails, the request issues no track call and
\* no order call, and the caller is answered with an authentication failure
\* (401), not with a not-found, an upstream or an internal (500) error.
C14_AuthErrorPropagated ==
    \A r \in Reqs :
        (pc[r] = "done" /\ hist[r].login \in FailedLogins) =>
            /\ calls[r].track = 0 /\ calls[r].order = 0
            /\ resp[r].sent /\ resp[r].status = 401

\* the track call of request r fails without a response in this step
TrackUnreachable(r) == pc[r] = "await_track" /\ hist'[r].track = "transport"

\* C15: when the track call fails without a response, the request ends with
\* 500 and a message that carries the message of the underlying error; no
\* order call and no retry is issued, and the cached token and expiry stay
\* as they were.
C15_TransportFailureIs500 ==
    [][\A r \in Reqs :
        TrackUnreachable(r) =>
            /\ pc'[r] = "done"
            /\ resp'[r] = Sent(500, FALSE, NullData, "Internal server error: Network Error")
            /\ calls'[r] = calls[r]
            /\ calls'[r].order = 0 /\ calls'[r].relogin = 0 /\ calls'[r].track = 1
            /\ authToken' = authToken /\ tokenExpiry' = tokenExpiry
      ]_vars

\* a track call failed without a response and the token it was made with
\* is still cached
C15_Witness ==
    \E r \in Reqs :
        /\ pc[r] = "done" /\ hist[r].track = "transport"
        /\ resp[r].status = 500
        /\ hist[r].login = "wf" /\ authToken # NoToken /\ tokenExpiry = storedAt + TTL

\* the requests received so far with a valid AWB
Started == { r \in Reqs : pc[r] \notin {"idle", "off"} /\ ~TooShort(awb[r]) }

\* the login calls issued so far, by all requests
LoginCalls ==
    LET RECURSIVE SumOver(_)
        SumOver(S) == IF S = {} THEN 0
                      ELSE LET r == CHOOSE x \in S : TRUE
                           IN  calls[r].login + calls[r].relogin + SumOver(S \ {r})
    IN  SumOver(Reqs)

\* so far every login has succeeded and no track call was answered 401 or
\* with the 400 that invalidates
Calm ==
    \A r \in Reqs :
        /\ hist[r].login \notin FailedLogins
        /\ hist[r].trackStatus \notin {400, 401}
        /\ hist[r].relogin = "none"

\* a login call of request r returns a token in this step
LoginSucceeds(r) ==
    \/ pc[r] = "await_login" /\ hist'[r].login = "wf"
    \/ pc[r] = "await_relogin" /\ hist'[r].relogin = "wf"

\* C16 as stated: requests that race on an empty cache, with every login
\* succeeding and no 401, issue at most one login more than the single login
\* that the same requests need when run one after another (all of them
\* inside the TTL of that login).
C16_OneExtraLogin ==
    (Calm /\ now < TTL) => LoginCalls =< 1 + 1

\* C16: with every login succeeding and no 401, each request issues at most
\* one login, so N requests that race issue at most N logins, N - 1 more
\* than the single login they need when run one after another; every login
\* that returns overwrites the cache with its own token and expiry, nothing
\* else assigns the token, and once all requests have finished the cache
\* holds the token stored last.
C16_OneLoginPerRacer ==
    [][/\ Calm' => /\ \A r \in Reqs : calls'[r].login =< 1 /\ calls'[r].relogin = 0
                   /\ LoginCalls' =< Cardinality(Started')
       /\ \A r \in Reqs :
            LoginSucceeds(r) =>
                /\ authToken' = token'[r] /\ authToken' \in Tokens
                /\ tokenExpiry' = now + TTL /\ storedAt' = now
       /\ (\A r \in Reqs : ~LoginSucceeds(r) /\ ~Invalidates(r)) =>
                authToken' = authToken /\ tokenExpiry' = tokenExpiry
       /\ (Calm' /\ LoginCalls' > 0 /\ \A r \in Reqs : pc'[r] \in {"done", "threw", "off"}) =>
                authToken' \in Tokens /\ tokenExpiry' = storedAt' + TTL
      ]_vars

\* three requests raced on the empty cache and each logged in: two logins
\* more than one after another needs; the cache holds a token
C16_Witness ==
    /\ Calm /\ now < TTL
    /\ \A r \in Reqs : pc[r] = "done" /\ hist[r].login = "wf" /\ resp[r].status = 200
    /\ LoginCalls = 3
    /\ authToken \in Tokens /\ tokenExpiry = storedAt + TTL

\* the remote calls request r has issued
TotalCalls(r) == calls[r].login + calls[r].relogin + calls[r].track + calls[r].order

\* the remote calls of request r that have returned
Returned(r) ==
    (IF hist[r].login \in {"none", "cached"} THEN 0 ELSE 1)
    + (IF hist[r].track = "none" THEN 0 ELSE 1)
    + (IF hist[r].order = "none" THEN 0 ELSE 1)
    + (IF hist[r].relogin = "none" THEN 0 ELSE 1)
    + (IF hist[r].retry = "none" THEN 0 ELSE 1)

\* request r is suspended at an await of a remote call
Awaiting(r) ==
    pc[r] \in {"await_login", "await_track", "await_order", "await_relogin", "await_retry"}

\* C17 as stated: every request issues at most three remote calls in total,
\* whatever the outcomes and in both handlers.
C17_AtMostThreeCalls ==
    \A r \in Reqs : TotalCalls(r) =< 3

\* C17: a request issues at most three remote calls in the handler without
\* retry (login, track, order) and at most four in the handler with retry
\* (login, track, login again, track again); a call is issued only when
\* every earlier one has returned: the track call after the token was
\* obtained, the order call after a well-formed track response, the second
\* login and the second track call only after a 401 and only in the handler
\* with retry.
C17_CallsInSequence ==
    \A r \in Reqs :
        /\ TotalCalls(r) =< (IF variant = "A" THEN 3 ELSE 4)
        /\ TotalCalls(r) = Returned(r) + (IF Awaiting(r) THEN 1 ELSE 0)
        /\ calls[r].login =< 1 /\ calls[r].relogin =< 1
        /\ calls[r].order =< 1 /\ calls[r].track =< 2
        /\ calls[r].track >= 1 => hist[r].login \in {"cached", "wf"}
        /\ calls[r].order = 1 => hist[r].track = "wf" /\ calls[r].track = 1
        /\ (calls[r].relogin = 1 \/ calls[r].track = 2) =>
                variant = "B" /\ hist[r].trackStatus = 401 /\ calls[r].order = 0
        /\ calls[r].track = 2 => hist[r].relogin \in {"wf"}

\* the handler with retry has issued four calls: login, track, login, track
C17_Witness ==
    \E r \in Reqs :
        /\ variant = "B" /\ pc[r] = "done"
        /\ calls[r] = [login |-> 1, relogin |-> 1, track |-> 2, order |-> 0]
        /\ TotalCalls(r) = 4

\* C18: every request whose handler has run to its end (no remote call is
\* outstanding) has sent a response, a request still waiting for a remote
\* call has sent none, and a response has success = true exactly when its
\* status is 200.
C18_OneResponseEach ==
    \A r \in Reqs :
        /\ (pc[r] \notin {"idle", "off"} /\ ~Awaiting(r)) => resp[r].sent
        /\ Awaiting(r) => ~resp[r].sent
        /\ resp[r].sent => (resp[r].success <=> resp[r].status = 200)

\* the order call of request r is answered 401 in this step
OrderFails401(r) ==
    /\ pc[r] = "await_order"
    /\ hist'[r].order = "http"
    /\ hist'[r].orderStatus = 401

\* C19: a 401 from the order call, like a 401 from the track call, leaves
\* the cache without a token, so that the next getAuthToken logs in again.
C19_OrderCall401Invalidates ==
    [][\A r \in Reqs :
        (OrderFails401(r) \/ TrackFails(r, 401)) =>
            /\ authToken' = NoToken
            /\ ~CacheHit(authToken', tokenExpiry', now')
      ]_vars

\* getAuthToken hands a token to request r in this step
Obtains(r) == token'[r] # token[r] /\ token'[r] \in Tokens

\* C20: as long as every login returns a token distinct from all earlier
\* ones, once a request has handled the 401 of a track call made with token
\* T, no later getAuthToken call returns T, neither from the cache nor from
\* a login.
C20_RejectedTokenNeverReturned ==
    [][\A r \in Reqs : Obtains(r) => ledger'[token'[r]] # "rejected"]_vars

====
